---- MODULE Spec2Model ----
(***************************************************************************)
(* A model of the heterogrammic word-group search of src/src/main.rs:      *)
(* letter masks, the anagram reduction, the word registry, the forward     *)
(* adjacency index, the persistent (parent-linked) group chains and the    *)
(* parallel generation loop that runs to the empty generation.             *)
(*                                                                         *)
(* Representation choices:                                                 *)
(*  - a String is the sequence of its characters' code points;             *)
(*  - a BitVec of 26 bits is the set of the indices of its 1 bits;         *)
(*  - an Arc<GroupNode> is an address into the heap `nodes`; the address   *)
(*    of an allocation is the list of word indices on the chain it heads   *)
(*    (each allocation of a run has its own, whatever order the parallel   *)
(*    tasks run in);                                                       *)
(*  - Vec<WordGroup> is the set of its elements: every element holds its   *)
(*    own freshly allocated head node, and the position of a group in the  *)
(*    vector (which depends on HashSet iteration order) is never read.     *)
(***************************************************************************)
EXTENDS Integers, Sequences, FiniteSets, TLC

VARIABLES
    pc,             \* position in main (or the name of the API harness)
    input,          \* `words` of main.rs:120-130: the filtered, unique tokens
    pos,            \* next element of the `for word in words` loop (1-based)
    anagrams,       \* HashMap<BitVec, Vec<String>>
    words,          \* the registry Vec<Word>
    heterogrammic,  \* Vec<HashSet<usize>>
    groups,         \* Vec<WordGroup>, the current generation
    nodes,          \* the heap of GroupNode allocations
    i,              \* the loop counter of `for i in 1..`
    pending,        \* groups of the generation whose flat_map task has not run
    produced,       \* per finished task, what its closure returned
    output,         \* the "{} groups of length {}" lines printed so far
    sample,         \* the last sampling line printed in this generation
    draws,          \* iterations of `for _ in 0..5` done in this generation
    history,        \* harness ghost: per group, the words in the order added
    iters,          \* harness: the live `Words` iterators
    call            \* harness: the last API call and what it returned

vars == <<pc, input, pos, anagrams, words, heterogrammic, groups, nodes, i,
          pending, produced, output, sample, draws, history, iters, call>>

mainVars == <<pc, input, pos, anagrams, words, heterogrammic, groups, nodes, i,
              pending, produced, output, sample, draws>>

harnessVars == <<history, iters, call>>

-----------------------------------------------------------------------------
(* Program constants *)

AlphabetSize == 26

OrdA == 97

Space == 32

WordLen == 5

SampleCount == 5

(* Bounds of the model *)

MaxWords == 3

MaxLen == 2

MaxLive == 2

-----------------------------------------------------------------------------
(* Option<T> *)

None == [some |-> FALSE]

Some(x) == [some |-> TRUE, val |-> x]

\* the two traversals the API harness may hold open at once
Traversals == {"first", "second"}

NoIters == [t \in Traversals |-> None]

(* Generic helpers *)

Range(s) == {s[k] : k \in DOMAIN s}

EmptyMap == [x \in {} |-> {}]

\* seq[from..] with a 0-based start, as a Rust slice
SliceFrom(s, from) == SubSeq(s, from + 1, Len(s))

Reverse(s) == [k \in DOMAIN s |-> s[Len(s) + 1 - k]]

Injective(f) == \A a, b \in DOMAIN f : f[a] = f[b] => a = b

SeqsUpTo(S, n) == UNION {[1..m -> S] : m \in 0..n}

-----------------------------------------------------------------------------
(* BitVec *)

BitVecZero == {}

BitSet(letters, idx) == letters \cup {idx}

BitAnd(a, b) == a \cap b

BitOr(a, b) == a \cup b

BitAny(a) == a # {}

BitNotAny(a) == a = {}

-----------------------------------------------------------------------------
(* word_letters *)

LetterIndexOneBased(letter) == letter - OrdA + 1

\* letter as usize - 'a' as usize
LetterIndex(letter) == letter - OrdA

RECURSIVE LettersLoop(_, _, _)
LettersLoop(word, k, letters) ==
    IF k > Len(word) THEN letters
    ELSE LettersLoop(word, k + 1, BitSet(letters, LetterIndex(word[k])))

word_letters(word) == LettersLoop(word, 1, BitVecZero)

WordNew(index, word) ==
    [word |-> word, letters |-> word_letters(word), index |-> index]

-----------------------------------------------------------------------------
(* GroupNode, Words, WordGroup *)

\* The address Arc::new returns for a node with this parent and word.
ArcNew(parent, word) ==
    IF parent.some THEN Append(parent.val, word.index) ELSE <<word.index>>

WordsNextOnce(heap, cursor) ==
    IF cursor.some
    THEN [cursor |-> None, item |-> Some(heap[cursor.val].word)]
    ELSE [cursor |-> None, item |-> None]

\* Words::next on a cursor Option<&GroupNode>: the new cursor and the item.
WordsNext(heap, cursor) ==
    IF cursor.some
    THEN [cursor |-> heap[cursor.val].parent, item |-> Some(heap[cursor.val].word)]
    ELSE [cursor |-> None, item |-> None]

\* The items an iterator yields from a cursor until it returns None.
RECURSIVE WordsFrom(_, _)
WordsFrom(heap, cursor) ==
    LET r == WordsNext(heap, cursor)
    IN  IF r.item.some THEN <<r.item.val>> \o WordsFrom(heap, r.cursor) ELSE <<>>

GroupNodeWords(addr) == Some(addr)

WordGroupNew(word) ==
    LET addr == ArcNew(None, word)
    IN  [g |-> [length |-> 1, letters |-> word.letters, node |-> addr],
         alloc |-> (addr :> [word |-> word, parent |-> None])]

WordGroupWord(heap, g) == heap[g.node].word

WordGroupWords(heap, g) == WordsFrom(heap, GroupNodeWords(g.node))

WordGroupAddNoUnion(g, word) ==
    IF BitAny(BitAnd(word.letters, g.letters))
    THEN None
    ELSE LET addr == ArcNew(Some(g.node), word)
         IN  Some([g |-> [length |-> 1 + g.length,
                          letters |-> word.letters,
                          node |-> addr],
                   alloc |-> (addr :> [word |-> word, parent |-> Some(g.node)])])

WordGroupAddSameLength(g, word) ==
    IF BitAny(BitAnd(word.letters, g.letters))
    THEN None
    ELSE LET addr == ArcNew(Some(g.node), word)
         IN  Some([g |-> [length |-> g.length,
                          letters |-> BitOr(g.letters, word.letters),
                          node |-> addr],
                   alloc |-> (addr :> [word |-> word, parent |-> Some(g.node)])])

WordGroupAddNoParent(g, word) ==
    IF BitAny(BitAnd(word.letters, g.letters))
    THEN None
    ELSE LET addr == ArcNew(Some(g.node), word)
         IN  Some([g |-> [length |-> 1 + g.length,
                          letters |-> BitOr(g.letters, word.letters),
                          node |-> addr],
                   alloc |-> (addr :> [word |-> word, parent |-> None])])

WordGroupAdd(g, word) ==
    IF BitAny(BitAnd(word.letters, g.letters))
    THEN None
    ELSE LET addr == ArcNew(Some(g.node), word)
         IN  Some([g |-> [length |-> 1 + g.length,
                          letters |-> BitOr(g.letters, word.letters),
                          node |-> addr],
                   alloc |-> (addr :> [word |-> word, parent |-> Some(g.node)])])

RECURSIVE FmtLoop(_, _)
FmtLoop(ws, text) ==
    IF ws = <<>> THEN text
    ELSE FmtLoop(Tail(ws), text \o Head(ws).word \o <<Space>>)

Fmt(heap, g) == FmtLoop(WordGroupWords(heap, g), <<>>)

\* Dropping groups: the nodes that stay allocated are those some remaining
\* group still reaches through parent links (Arc reference counts).
RECURSIVE AddrsFrom(_, _)
AddrsFrom(heap, cursor) ==
    IF cursor.some
    THEN {cursor.val} \cup AddrsFrom(heap, heap[cursor.val].parent)
    ELSE {}

Retain(heap, gs) ==
    LET live == UNION {AddrsFrom(heap, Some(g.node)) : g \in gs}
    IN  [a \in live |-> heap[a]]

MergeAllocs(heap, rs) ==
    LET new == UNION {DOMAIN r.alloc : r \in rs}
    IN  [a \in DOMAIN heap \cup new |->
            IF a \in DOMAIN heap THEN heap[a]
            ELSE (CHOOSE r \in rs : a \in DOMAIN r.alloc).alloc[a]]

-----------------------------------------------------------------------------
(* Inputs *)

abcde == <<97, 98, 99, 100, 101>>
edcba == <<101, 100, 99, 98, 97>>
fghij == <<102, 103, 104, 105, 106>>
klmno == <<107, 108, 109, 110, 111>>
pqrst == <<112, 113, 114, 115, 116>>
uvwxy == <<117, 118, 119, 120, 121>>
aklmn == <<97, 107, 108, 109, 110>>

Pool == {abcde, edcba, fghij, klmno, aklmn}

Scenario == <<abcde, fghij, klmno, pqrst, uvwxy, edcba>>

Inputs == {s \in SeqsUpTo(Pool, MaxWords) : Injective(s)}

-----------------------------------------------------------------------------
(* main *)

\* anagrams.entry(letters).or_default().push(word)
EntryPush(map, letters, word) ==
    IF letters \in DOMAIN map
    THEN [map EXCEPT ![letters] = Append(@, word)]
    ELSE [m \in DOMAIN map \cup {letters} |->
            IF m = letters THEN <<word>> ELSE map[m]]

RegistryFlatten(map, order) ==
    LET RECURSIVE Cat(_)
        Cat(k) == IF k = 0 THEN <<>> ELSE Cat(k - 1) \o map[order[k]]
        all == Cat(Len(order))
    IN  [k \in DOMAIN all |-> WordNew(k - 1, all[k])]

\* v[0].clone()
Representative(v) == v[1]

\* The orders in which HashMap::values() may yield the classes.
ValuesOrders(map) ==
    {o \in [1..Cardinality(DOMAIN map) -> DOMAIN map] : Injective(o)}

Registry(map, order) ==
    [k \in DOMAIN order |-> WordNew(k - 1, Representative(map[order[k]]))]

HeterogrammicOfSkip(ws, word) ==
    {w.index : w \in {w \in Range(SliceFrom(ws, word.index + 2)) :
                        BitNotAny(BitAnd(word.letters, w.letters))}}

\* The closure of main.rs:161-172 for one word.
HeterogrammicOf(ws, word) ==
    {w.index : w \in {w \in Range(SliceFrom(ws, word.index + 1)) :
                        BitNotAny(BitAnd(word.letters, w.letters))}}

ExtensionsOffByOne(heap, het, g) ==
    LET ws == WordGroupWords(heap, g)
    IN  {j \in het[WordGroupWord(heap, g).index + 1] :
            /\ \A k \in DOMAIN ws : j > ws[k].index + 1
            /\ \A k \in DOMAIN Tail(ws) : j \in het[Tail(ws)[k].index + 1]}

ExtensionsUnordered(heap, het, g) ==
    LET ws == WordGroupWords(heap, g)
    IN  {j \in 0..(Len(het) - 1) :
            \A k \in DOMAIN ws :
                j \in het[ws[k].index + 1] \/ ws[k].index \in het[j + 1]}

SeedRoot(heap, het, g) ==
    LET ws == WordGroupWords(heap, g) IN het[ws[Len(ws)].index + 1]

\* main.rs:202: the set the filter starts from, heterogrammic[g.word().index].
Seed(heap, het, g) == het[WordGroupWord(heap, g).index + 1]

ExtensionsHeadOnly(heap, het, g) ==
    LET ws == WordGroupWords(heap, g)
    IN  {j \in Seed(heap, het, g) : \A k \in DOMAIN ws : j > ws[k].index}

\* The filter of main.rs:202-207: the candidates that may extend g.
Extensions(heap, het, g) ==
    LET ws == WordGroupWords(heap, g)
    IN  {j \in Seed(heap, het, g) :
            /\ \A k \in DOMAIN ws : j > ws[k].index
            /\ \A k \in DOMAIN Tail(ws) : j \in het[Tail(ws)[k].index + 1]}

\* The closure of main.rs:195-212 for one group: the Some results of add.
ExpandGroup(heap, het, ws, g) ==
    LET tried == {WordGroupAdd(g, ws[j + 1]) : j \in Extensions(heap, het, g)}
    IN  {r.val : r \in {r \in tried : r.some}}

IsEmptyOrTarget(gs) == gs = {} \/ \E g \in gs : g.length = WordLen

IsEmptyNever(gs) == FALSE

\* groups.is_empty()
IsEmpty(gs) == gs = {}

Idle == UNCHANGED harnessVars

Start(inputs) ==
    /\ pc = "reduce"
    /\ input \in inputs
    /\ pos = 1
    /\ anagrams = EmptyMap
    /\ words = <<>>
    /\ heterogrammic = <<>>
    /\ groups = {}
    /\ nodes = EmptyMap
    /\ i = 1
    /\ pending = {}
    /\ produced = EmptyMap
    /\ output = <<>>
    /\ sample = <<>>
    /\ draws = 0
    /\ history = EmptyMap
    /\ iters = NoIters
    /\ call = [op |-> "none"]

Init == Start(Inputs)

InitFull == Start(Inputs \cup {Scenario})

\* main.rs:141-144, one iteration
Reduce ==
    /\ pc = "reduce"
    /\ pos <= Len(input)
    /\ anagrams' = EntryPush(anagrams, word_letters(input[pos]), input[pos])
    /\ pos' = pos + 1
    /\ UNCHANGED <<pc, input, words, heterogrammic, groups, nodes, i, pending,
                   produced, output, sample, draws>>
    /\ Idle

\* main.rs:145-152
Register ==
    /\ pc = "reduce"
    /\ pos > Len(input)
    /\ \E order \in ValuesOrders(anagrams) : words' = Registry(anagrams, order)
    /\ pc' = "index"
    /\ UNCHANGED <<input, pos, anagrams, heterogrammic, groups, nodes, i, pending,
                   produced, output, sample, draws>>
    /\ Idle

\* main.rs:159-173
BuildIndex ==
    /\ pc = "index"
    /\ heterogrammic' = [k \in DOMAIN words |-> HeterogrammicOf(words, words[k])]
    /\ pc' = "singletons"
    /\ UNCHANGED <<input, pos, anagrams, words, groups, nodes, i, pending,
                   produced, output, sample, draws>>
    /\ Idle

\* main.rs:176
Singletons ==
    /\ pc = "singletons"
    /\ LET rs == {WordGroupNew(w) : w \in Range(words)}
       IN  /\ groups' = {r.g : r \in rs}
           /\ nodes' = MergeAllocs(nodes, rs)
    /\ i' = 1
    /\ pc' = "report"
    /\ UNCHANGED <<input, pos, anagrams, words, heterogrammic, pending,
                   produced, output, sample, draws>>
    /\ Idle

\* main.rs:184-187
Report ==
    /\ pc = "report"
    /\ output' = Append(output, [count |-> Cardinality(groups), length |-> i])
    /\ pc' = IF IsEmpty(groups) THEN "done" ELSE "sample"
    /\ draws' = 0
    /\ UNCHANGED <<input, pos, anagrams, words, heterogrammic, groups, nodes, i,
                   pending, produced, sample>>
    /\ Idle

\* main.rs:189-191, one iteration; choose() on an empty slice is None and
\* unwrap() panics
Sample ==
    /\ pc = "sample"
    /\ draws < SampleCount
    /\ IF groups = {}
       THEN pc' = "panic" /\ UNCHANGED <<sample, draws>>
       ELSE /\ \E g \in groups : sample' = Fmt(nodes, g)
            /\ draws' = draws + 1
            /\ pc' = pc
    /\ UNCHANGED <<input, pos, anagrams, words, heterogrammic, groups, nodes, i,
                   pending, produced, output>>
    /\ Idle

\* main.rs:193-194: par_iter() hands one task per group to the pool
Fork ==
    /\ pc = "sample"
    /\ draws = SampleCount
    /\ pending' = groups
    /\ produced' = EmptyMap
    /\ sample' = <<>>
    /\ pc' = "expand"
    /\ UNCHANGED <<input, pos, anagrams, words, heterogrammic, groups, nodes, i,
                   output, draws>>
    /\ Idle

\* main.rs:195-212: the task of one group, in any order among the tasks
Task ==
    /\ pc = "expand"
    /\ \E g \in pending :
        LET rs == ExpandGroup(nodes, heterogrammic, words, g)
        IN  /\ produced' = [t \in DOMAIN produced \cup {g} |->
                                IF t = g THEN {r.g : r \in rs} ELSE produced[t]]
            /\ nodes' = MergeAllocs(nodes, rs)
            /\ pending' = pending \ {g}
    /\ UNCHANGED <<pc, input, pos, anagrams, words, heterogrammic, groups, i,
                   output, sample, draws>>
    /\ Idle

\* main.rs:213: collect() gathers what the tasks returned into one Vec
Collected(prod) == UNION {prod[t] : t \in DOMAIN prod}

CollectEarly ==
    /\ pc = "expand"
    /\ LET next == Collected(produced)
       IN  /\ groups' = next
           /\ nodes' = Retain(nodes, next)
    /\ produced' = EmptyMap
    /\ i' = i + 1
    /\ pc' = "report"
    /\ UNCHANGED <<input, pos, anagrams, words, heterogrammic, pending,
                   output, sample, draws>>
    /\ Idle

\* main.rs:213 and the loop step: collect() returns once every task has
\* finished, the old generation is dropped, i advances
Collect ==
    /\ pc = "expand"
    /\ pending = {}
    /\ LET next == Collected(produced)
       IN  /\ groups' = next
           /\ nodes' = Retain(nodes, next)
    /\ produced' = EmptyMap
    /\ i' = i + 1
    /\ pc' = "report"
    /\ UNCHANGED <<input, pos, anagrams, words, heterogrammic, pending,
                   output, sample, draws>>
    /\ Idle

Next ==
    \/ Reduce
    \/ Register
    \/ BuildIndex
    \/ Singletons
    \/ Report
    \/ Sample
    \/ Fork
    \/ Task
    \/ Collect

Spec == Init /\ [][Next]_vars

\* The pool inputs and the six-word scenario.
SpecFull == InitFull /\ [][Next]_vars

-----------------------------------------------------------------------------
(* word_letters on its own: every word over a-z up to MaxLen characters *)

Alphabet == OrdA..(OrdA + AlphabetSize - 1)

NoCall == [op |-> "none"]

Parked(at) ==
    /\ pc = at
    /\ input = <<>>
    /\ pos = 1
    /\ anagrams = EmptyMap
    /\ heterogrammic = <<>>
    /\ i = 1
    /\ pending = {}
    /\ produced = EmptyMap
    /\ output = <<>>
    /\ sample = <<>>
    /\ draws = 0

mainExceptHeap == <<pc, input, pos, anagrams, heterogrammic, i, pending,
                    produced, output, sample, draws>>

InitLetters ==
    /\ Parked("word_letters")
    /\ words = <<>>
    /\ groups = {}
    /\ nodes = EmptyMap
    /\ history = EmptyMap
    /\ iters = NoIters
    /\ \E w \in SeqsUpTo(Alphabet, MaxLen) :
          call = [op |-> "word_letters", word |-> w, ret |-> None]

Letters ==
    /\ pc = "word_letters"
    /\ ~call.ret.some
    /\ call' = [call EXCEPT !.ret = Some(word_letters(call.word))]
    /\ UNCHANGED <<mainVars, history, iters>>

SpecLetters == InitLetters /\ [][Letters]_vars

-----------------------------------------------------------------------------
(* WordGroup driven through its API: new, add, words(), fmt, drop, with any
   registry word as argument, whether or not main would pass it *)

\* one registry with three disjoint words, one where aklmn overlaps two others
ApiRegistries == {<<abcde, fghij, klmno>>, <<abcde, aklmn, fghij, klmno>>}


InitGroup ==
    /\ Parked("api")
    /\ \E ws \in ApiRegistries : words = [k \in DOMAIN ws |-> WordNew(k - 1, ws[k])]
    /\ groups = {}
    /\ nodes = EmptyMap
    /\ history = EmptyMap
    /\ iters = NoIters
    /\ call = NoCall

Borrowed(g) == \E t \in Traversals : iters[t].some /\ iters[t].val.g = g

Keep(r, ws) ==
    /\ groups' = groups \cup {r.g}
    /\ nodes' = MergeAllocs(nodes, {r})
    /\ history' = [h \in DOMAIN history \cup {r.g} |->
                        IF h = r.g THEN ws ELSE history[h]]

\* WordGroup::new(word)
ApiNew ==
    /\ pc = "api"
    /\ Cardinality(groups) < MaxLive
    /\ \E w \in Range(words) : Keep(WordGroupNew(w), <<w>>)
    /\ call' = NoCall
    /\ UNCHANGED <<mainExceptHeap, words, iters>>

\* g.add(word); the result is kept while there is room, dropped otherwise.
\* The call is recorded in `call` when no traversal is open.
ApiAdd ==
    /\ pc = "api"
    /\ \E g \in groups, w \in Range(words) :
        LET r == WordGroupAdd(g, w)
        IN  /\ call' = IF iters = NoIters
                       THEN [op |-> "add", g |-> g, word |-> w,
                             ret |-> IF r.some THEN Some(r.val.g) ELSE None,
                             node |-> IF r.some
                                      THEN Some(r.val.alloc[r.val.g.node])
                                      ELSE None]
                       ELSE NoCall
            /\ IF r.some /\ Cardinality(groups) < MaxLive
               THEN Keep(r.val, Append(history[g], w))
               ELSE UNCHANGED <<groups, nodes, history>>
    /\ UNCHANGED <<mainExceptHeap, words, iters>>

\* a group goes out of scope; no iterator may still borrow it
ApiDrop ==
    /\ pc = "api"
    /\ \E g \in groups :
        /\ ~Borrowed(g)
        /\ groups' = groups \ {g}
        /\ nodes' = Retain(nodes, groups \ {g})
        /\ history' = [h \in DOMAIN history \ {g} |-> history[h]]
    /\ call' = NoCall
    /\ UNCHANGED <<mainExceptHeap, words, iters>>

\* g.words(): a new iterator
ApiWordsCall ==
    /\ pc = "api"
    /\ \E t \in Traversals, g \in groups :
        /\ ~iters[t].some
        /\ iters' = [iters EXCEPT ![t] =
                        Some([g |-> g, cursor |-> GroupNodeWords(g.node),
                              out |-> <<>>, done |-> FALSE])]
    /\ call' = NoCall
    /\ UNCHANGED <<mainExceptHeap, words, groups, nodes, history>>

\* next() on one of the live iterators
ApiNext ==
    /\ pc = "api"
    /\ \E t \in Traversals :
        /\ iters[t].some
        /\ ~iters[t].val.done
        /\ LET it == iters[t].val
               r == WordsNext(nodes, it.cursor)
           IN  iters' = [iters EXCEPT ![t] =
                    Some([g |-> it.g, cursor |-> r.cursor,
                          out |-> IF r.item.some THEN Append(it.out, r.item.val)
                                  ELSE it.out,
                          done |-> ~r.item.some])]
    /\ call' = NoCall
    /\ UNCHANGED <<mainExceptHeap, words, groups, nodes, history>>

\* an iterator goes out of scope
ApiIterDrop ==
    /\ pc = "api"
    /\ \E t \in Traversals :
        /\ iters[t].some
        /\ iters' = [iters EXCEPT ![t] = None]
    /\ call' = NoCall
    /\ UNCHANGED <<mainExceptHeap, words, groups, nodes, history>>

\* format!("{}", g), while no traversal is open
ApiFmt ==
    /\ pc = "api"
    /\ iters = NoIters
    /\ \E g \in groups : call' = [op |-> "fmt", g |-> g, ret |-> Fmt(nodes, g)]
    /\ UNCHANGED <<mainExceptHeap, words, groups, nodes, history, iters>>

NextGroup ==
    \/ ApiNew
    \/ ApiAdd
    \/ ApiDrop
    \/ ApiWordsCall
    \/ ApiNext
    \/ ApiIterDrop
    \/ ApiFmt

SpecGroup == InitGroup /\ [][NextGroup]_vars

-----------------------------------------------------------------------------
(* Oracles: what the claims compare the program with.  They read the words'
   characters, never the masks the program computed. *)

LetterSet(word) == Range(word)

Heterogram(S) == \A a, b \in S : a # b => LetterSet(a) \cap LetterSet(b) = {}

KSubsets(S, k) == {T \in SUBSET S : Cardinality(T) = k}

MemberIds(heap, g) == {w.index : w \in Range(WordGroupWords(heap, g))}

MemberWords(heap, g) == {w.word : w \in Range(WordGroupWords(heap, g))}

\* the loop of main.rs:183-214 has been entered: `groups` is generation i
InLoop == pc \in {"report", "sample", "expand", "done"}

BruteForceIds(k) ==
    {T \in KSubsets(0..(Len(words) - 1), k) :
        Heterogram({words[j + 1].word : j \in T})}

\* the first word of each anagram class, in input order
FirstOfClass ==
    {input[k] : k \in {k \in DOMAIN input :
        \A m \in 1..(k - 1) : LetterSet(input[m]) # LetterSet(input[k])}}

ExpectedGeneration(k) == {T \in KSubsets(FirstOfClass, k) : Heterogram(T)}

\* C1: generation k, as sets of word ids, is exactly the set of k-subsets of
\* the registry whose words are pairwise letter-disjoint.
C1_BruteForce ==
    InLoop => {MemberIds(nodes, g) : g \in groups} = BruteForceIds(i)

C1_Witness ==
    /\ pc = "report"
    /\ i = 2
    /\ Len(words) = 3
    /\ Cardinality(groups) = 2

\* C2: no two groups of a generation have the same set of member word ids.
C2_NoDuplicates ==
    InLoop => \A g1, g2 \in groups :
                MemberIds(nodes, g1) = MemberIds(nodes, g2) => g1 = g2

C2_Witness ==
    /\ pc = "report"
    /\ i = 3
    /\ Cardinality(groups) = 1

\* C7: after the reduction every letter set of the input has exactly one
\* representative in the registry, every registry word is an input word, and
\* no two registry words have the same mask.
C7_AnagramReduction ==
    pc # "reduce" =>
        /\ \A w \in Range(input) :
              Cardinality({k \in DOMAIN words :
                            LetterSet(words[k].word) = LetterSet(w)}) = 1
        /\ \A k \in DOMAIN words : words[k].word \in Range(input)
        /\ \A a, b \in DOMAIN words :
              words[a].letters = words[b].letters => a = b
        /\ Len(words) = Cardinality({LetterSet(w) : w \in Range(input)})

C7_Witness ==
    /\ pc = "index"
    /\ {abcde, edcba} \subseteq Range(input)
    /\ Len(input) = 3
    /\ Len(words) = 2

\* C8: the groups of every generation (as sets of words) and every reported
\* count are a function of the input sequence alone.
C8_Deterministic ==
    /\ InLoop => {MemberWords(nodes, g) : g \in groups} = ExpectedGeneration(i)
    /\ \A n \in DOMAIN output :
          output[n] = [count |-> Cardinality(ExpectedGeneration(n)), length |-> n]

C8_Witness ==
    /\ pc = "done"
    /\ Len(output) = 4
    /\ words[1].word # input[1]


\* C3: for abcde fghij klmno pqrst uvwxy edcba the reducer leaves 5 classes
\* (abcde and edcba merged), generation 5 is exactly one group holding one
\* representative of each class, and generation 6 is empty.
C3_Scenario ==
    input = Scenario =>
        /\ pc # "reduce" =>
              /\ Len(words) = 5
              /\ Cardinality({k \in DOMAIN words :
                                words[k].word \in {abcde, edcba}}) = 1
        /\ (InLoop /\ i = 5) =>
              /\ Cardinality(groups) = 1
              /\ \A g \in groups :
                    /\ Cardinality(MemberIds(nodes, g)) = 5
                    /\ {LetterSet(w) : w \in MemberWords(nodes, g)}
                         = {LetterSet(w) : w \in Range(Scenario)}
        /\ (InLoop /\ i = 6) => groups = {}
        /\ Len(output) >= 5 => output[5] = [count |-> 1, length |-> 5]
        /\ Len(output) >= 6 => output[6] = [count |-> 0, length |-> 6]

C3_Witness ==
    /\ input = Scenario
    /\ pc = "done"
    /\ i = 6
    /\ Len(output) = 6

MaxGenerations == AlphabetSize \div WordLen

RECURSIVE Pow2(_)
Pow2(n) == IF n = 0 THEN 1 ELSE 2 * Pow2(n - 1)

PerGeneration == SampleCount + Pow2(Len(input)) + 3

Rank ==
    CASE pc = "reduce"     -> (MaxGenerations + 1) * PerGeneration + 3
                                + (Len(input) + 1 - pos)
      [] pc = "index"      -> (MaxGenerations + 1) * PerGeneration + 2
      [] pc = "singletons" -> (MaxGenerations + 1) * PerGeneration + 1
      [] pc = "report"     -> (MaxGenerations + 1 - i) * PerGeneration
                                + SampleCount + Cardinality(groups) + 3
      [] pc = "sample"     -> (MaxGenerations + 1 - i) * PerGeneration
                                + (SampleCount - draws) + Cardinality(groups) + 2
      [] pc = "expand"     -> (MaxGenerations + 1 - i) * PerGeneration
                                + Cardinality(pending) + 1
      [] OTHER             -> 0

\* Enabledness of the next step.  While tasks are outstanding (pc = "expand")
\* a Task step exists for every pending group, and Collect once none is
\* pending; everywhere else ENABLED is evaluated.
CanStep == pc = "expand" \/ ENABLED Next

\* C5: the loop reaches an empty generation and stops, and a non-empty
\* generation has index at most floor(alphabet size / word length).
\* Termination is stated with a variant: Rank is a natural number that every
\* step of the program strictly decreases, and the program can always take a
\* step until it has stopped.
C5_Termination ==
    /\ [](InLoop /\ groups # {} => i <= MaxGenerations)
    /\ [](Rank >= 0)
    /\ [][Rank' < Rank]_vars
    /\ [](pc = "done" \/ CanStep)

C5_Witness ==
    /\ pc = "sample"
    /\ i = AlphabetSize \div WordLen
    /\ groups # {}

\* C6: the reports are for lengths 1, 2, 3, ... in order, each giving the
\* size of that generation; the loop stops exactly at the first report whose
\* count is zero, and that report has been printed when it stops.
C6_Exhaustion ==
    /\ \A n \in DOMAIN output : output[n].length = n
    /\ \A n \in DOMAIN output :
          output[n].count = 0 <=> (n = Len(output) /\ pc = "done")
    /\ pc = "done" => output # <<>>
    /\ pc \in {"sample", "expand"} =>
          output[Len(output)] = [count |-> Cardinality(groups), length |-> i]
    /\ pc \in {"reduce", "index", "singletons"} => output = <<>>

C6_Witness ==
    /\ pc = "done"
    /\ Len(output) = 6
    /\ output[5].count = 1
    /\ output[6].count = 0

Bits == 0..(AlphabetSize - 1)

\* C4: add(g, w) returns a group exactly when w's mask and g's union mask
\* share no bit; the group returned has g's mask OR w's mask as its mask and
\* g.length + 1 as its length.
C4_ExtensionSound ==
    call.op = "add" =>
        /\ call.ret.some <=>
              ~ \E b \in Bits : b \in call.word.letters /\ b \in call.g.letters
        /\ call.ret.some =>
              /\ \A b \in Bits :
                    b \in call.ret.val.letters <=>
                        (b \in call.g.letters \/ b \in call.word.letters)
              /\ call.ret.val.letters \subseteq Bits
              /\ call.ret.val.length = call.g.length + 1

C4_Witness ==
    /\ call.op = "add"
    /\ call.g.length = 2
    /\ call.ret.some
    /\ call.ret.val.length = 3

\* C9: word_letters returns a 26-bit mask whose bit b is set exactly when
\* letter b occurs in the word, so it has as many bits set as the word has
\* distinct letters.
C9_MaskCorrect ==
    (call.op = "word_letters" /\ call.ret.some) =>
        /\ call.ret.val \subseteq Bits
        /\ \A b \in Bits :
              b \in call.ret.val <=>
                  \E k \in DOMAIN call.word : call.word[k] = OrdA + b
        /\ Cardinality(call.ret.val) = Cardinality(LetterSet(call.word))

C9_Witness ==
    /\ call.op = "word_letters"
    /\ call.word = <<122, 122>>
    /\ call.ret = Some({25})

NewestFirst(g) == Reverse(history[g])

TextOf(ws) ==
    [p \in 1..(Len(ws) * (WordLen + 1)) |->
        IF p % (WordLen + 1) = 0 THEN Space
        ELSE ws[((p - 1) \div (WordLen + 1)) + 1].word[p % (WordLen + 1)]]

\* C10: a traversal yields the members once each, newest first and the
\* first-added last, whatever other traversals are doing; the rendered text
\* is those words in that order, each followed by one space.
C10_Traversal ==
    /\ \A t \in Traversals :
          iters[t].some =>
              LET it == iters[t].val
                  expect == NewestFirst(it.g)
              IN  /\ Len(it.out) <= Len(expect)
                  /\ it.out = SubSeq(expect, 1, Len(it.out))
                  /\ it.done => it.out = expect
    /\ call.op = "fmt" => call.ret = TextOf(NewestFirst(call.g))

C10_Witness ==
    /\ iters["first"].some
    /\ iters["second"].some
    /\ iters["first"].val.g = iters["second"].val.g
    /\ iters["first"].val.g.length = 3
    /\ iters["first"].val.done
    /\ Len(iters["second"].val.out) = 1

\* the groups that exist in a state of the loop: the current generation and
\* what the finished tasks have returned
Produced == UNION {produced[t] : t \in DOMAIN produced}

Reachable == groups \cup Produced

\* C11: for every group of every generation, the union mask is the union of
\* the masks of the words on its chain, those words have pairwise disjoint
\* masks and are pairwise different, and length is the number of chain nodes.
C11_GroupInvariant ==
    InLoop => \A g \in Reachable :
        LET ws == WordGroupWords(nodes, g)
        IN  /\ g.letters = UNION {ws[k].letters : k \in DOMAIN ws}
            /\ \A a, b \in DOMAIN ws :
                  a # b => /\ ws[a].letters \cap ws[b].letters = {}
                           /\ ws[a].index # ws[b].index
                           /\ ws[a].word # ws[b].word
            /\ g.length = Len(ws)
            /\ g.length = Cardinality(AddrsFrom(nodes, Some(g.node)))

C11_Witness ==
    /\ pc = "expand"
    /\ \E g \in Produced : g.length = 3
    /\ \E g \in groups : g.length = 2

\* C12: once built, heterogrammic[w.id] is exactly the set of ids j > w.id
\* whose letters are disjoint from w's; it holds neither w.id nor a lower id,
\* and it is never modified afterwards.
IndexBuilt == pc \notin {"reduce", "index"}

C12_AdjacencyIndex ==
    /\ [](IndexBuilt =>
            /\ Len(heterogrammic) = Len(words)
            /\ \A k \in DOMAIN words :
                  /\ heterogrammic[k] =
                        {j \in 0..(Len(words) - 1) :
                            /\ j > words[k].index
                            /\ LetterSet(words[j + 1].word)
                                 \cap LetterSet(words[k].word) = {}}
                  /\ \A j \in heterogrammic[k] : j > k - 1)
    /\ [][IndexBuilt => heterogrammic' = heterogrammic]_vars

C12_Witness ==
    /\ pc = "expand"
    /\ Len(words) = 3
    /\ heterogrammic[1] = {1}
    /\ heterogrammic[2] = {}

\* C13: a group returned by the task of g holds g's chain plus one word j
\* whose id is greater than the id of every member of g and which lies in the
\* adjacency set of every member of g; so along every chain the ids grow in
\* the order the words were added.
C13_IncreasingIds ==
    InLoop =>
        /\ \A t \in DOMAIN produced : \A c \in produced[t] :
              LET j == WordGroupWord(nodes, c).index
              IN  /\ nodes[c.node].parent = Some(t.node)
                  /\ \A w \in Range(WordGroupWords(nodes, t)) :
                        /\ j > w.index
                        /\ j \in heterogrammic[w.index + 1]
        /\ \A g \in Reachable :
              LET added == Reverse(WordGroupWords(nodes, g))
              IN  \A a, b \in DOMAIN added : a < b => added[a].index < added[b].index

C13_Witness ==
    /\ pc = "expand"
    /\ \E t \in DOMAIN produced : t.length = 2 /\ produced[t] # {}

\* the ids of a chain in the order the traversal meets them: the most
\* recently added word first, the first-added word last
ChainIds(heap, g) ==
    LET ws == WordGroupWords(heap, g) IN [k \in DOMAIN ws |-> ws[k].index]

\* C14 as stated: read from the most recently added word back toward the
\* first-added word, the ids of every group strictly increase.
C14_AsStated ==
    InLoop => \A g \in Reachable :
        LET ids == ChainIds(nodes, g)
        IN  \A a, b \in DOMAIN ids : a < b => ids[a] < ids[b]

\* C14: read from the most recently added word back toward the first-added
\* word, the ids of every group strictly decrease: every node holds an id
\* greater than its parent's, so the head holds the largest id of the chain.
C14_ChainOrder ==
    InLoop => \A g \in Reachable :
        LET ids == ChainIds(nodes, g)
        IN  /\ \A a, b \in DOMAIN ids : a < b => ids[a] > ids[b]
            /\ \A a \in AddrsFrom(nodes, Some(g.node)) :
                  nodes[a].parent.some =>
                      nodes[a].word.index > nodes[nodes[a].parent.val].word.index
            /\ \A k \in DOMAIN ids : nodes[g.node].word.index >= ids[k]

C14_Witness ==
    /\ pc = "report"
    /\ i = 3
    /\ \E g \in groups : ChainIds(nodes, g) = <<2, 1, 0>>

\* the Word records on g's chain
Members(heap, g) == Range(WordGroupWords(heap, g))

\* the root of g's chain, the node without a parent: the first-added word
RootWord(heap, g) ==
    LET r == CHOOSE a \in AddrsFrom(heap, Some(g.node)) : ~heap[a].parent.some
    IN  heap[r].word

\* the member of g with the largest id
LatestWord(heap, g) ==
    CHOOSE w \in Members(heap, g) : \A v \in Members(heap, g) : v.index <= w.index

\* C15 as stated: the filter starts from the adjacency set of the first-added
\* word of g, the root of the chain.
C15_AsStated ==
    InLoop => \A g \in groups :
        Seed(nodes, heterogrammic, g) = heterogrammic[RootWord(nodes, g).index + 1]

\* C15: the filter starts from the adjacency set of the most recently added
\* word of g (the head of the chain, the largest id in it) and is then refined
\* against every other member of g.
C15_Seeding ==
    InLoop => \A g \in groups :
        LET latest == LatestWord(nodes, g)
            seed   == heterogrammic[latest.index + 1]
        IN  /\ nodes[g.node].word = latest
            /\ Seed(nodes, heterogrammic, g) = seed
            /\ Extensions(nodes, heterogrammic, g) =
                  {j \in seed :
                      /\ \A w \in Members(nodes, g) : j > w.index
                      /\ \A w \in Members(nodes, g) \ {latest} :
                            j \in heterogrammic[w.index + 1]}

C15_Witness ==
    /\ pc = "expand"
    /\ \E g \in groups :
          /\ g.length = 2
          /\ RootWord(nodes, g) # LatestWord(nodes, g)
          /\ Seed(nodes, heterogrammic, g) # heterogrammic[RootWord(nodes, g).index + 1]
          /\ Extensions(nodes, heterogrammic, g) # {}

\* the extensions of generation gs that succeed, by brute force: a group and
\* a later registry word sharing no letter with any member
SuccessfulExtensions(heap, ws, gs) ==
    {<<g, j>> \in gs \X (0..(Len(ws) - 1)) :
        \A w \in Members(heap, g) :
            /\ j > w.index
            /\ LetterSet(ws[j + 1].word) \cap LetterSet(w.word) = {}}

\* C16: whatever the order of the tasks, the next generation holds every
\* successful extension of the current one exactly once; only groups of the
\* current generation are expanded and the next generation appears only when
\* all of them have been; while the tasks run, the registry, the adjacency
\* index, the current groups and their chains are left as they are.
C16_Barrier ==
    /\ [](pc = "expand" =>
            /\ pending \subseteq groups
            /\ DOMAIN produced = groups \ pending
            /\ \A g \in groups : g.length = i
            /\ \A c \in Produced : c.length = i + 1 /\ c \notin groups)
    /\ [][pc = "expand" /\ pc' # "expand" =>
            LET expected == SuccessfulExtensions(nodes, words, groups)
            IN  /\ pending = {}
                /\ DOMAIN produced = groups
                /\ {MemberIds(nodes', c) : c \in groups'} =
                      {MemberIds(nodes, e[1]) \cup {e[2]} : e \in expected}
                /\ {<<nodes'[c.node].parent.val, nodes'[c.node].word.index>> :
                        c \in groups'} = {<<e[1].node, e[2]>> : e \in expected}
                /\ Cardinality(groups') = Cardinality(expected)]_vars
    /\ [][pc = "expand" /\ pc' = "expand" =>
            /\ UNCHANGED <<words, heterogrammic, groups>>
            /\ \A a \in DOMAIN nodes : a \in DOMAIN nodes' /\ nodes'[a] = nodes[a]]_vars

C16_Witness ==
    /\ pc = "expand"
    /\ Cardinality(groups) = 3
    /\ \E g \in pending : MemberIds(nodes, g) = {0}
    /\ \E t \in DOMAIN produced : MemberIds(nodes, t) = {1} /\ produced[t] # {}

\* C17: add(g, w), whether it returns a group or None, leaves g's length,
\* mask and chain (every node's word and parent) as they were; a group it
\* returns has one new node, holding w, whose parent is g's head node, so
\* the groups made from g share g's chain.
C17_SourceUnchanged ==
    /\ [](call.op = "add" =>
            /\ call.g \in groups
            /\ WordGroupWords(nodes, call.g) = NewestFirst(call.g)
            /\ call.g.length = Len(history[call.g])
            /\ call.ret.some =>
                  /\ call.node.val = [word |-> call.word, parent |-> Some(call.g.node)]
                  /\ call.ret.val.node \notin AddrsFrom(nodes, Some(call.g.node))
                  /\ call.ret.val \in groups =>
                        /\ nodes[call.ret.val.node] = call.node.val
                        /\ WordGroupWords(nodes, call.ret.val) =
                              <<call.word>> \o WordGroupWords(nodes, call.g)
                        /\ AddrsFrom(nodes, Some(call.ret.val.node)) =
                              {call.ret.val.node} \cup AddrsFrom(nodes, Some(call.g.node)))
    /\ [][call'.op = "add" =>
            /\ call'.g \in groups /\ call'.g \in groups'
            /\ groups \subseteq groups'
            /\ \A a \in DOMAIN nodes : a \in DOMAIN nodes' /\ nodes'[a] = nodes[a]
            /\ \A g \in groups : WordGroupWords(nodes', g) = WordGroupWords(nodes, g)
            /\ IF call'.ret.some
               THEN DOMAIN nodes' \subseteq DOMAIN nodes \cup {call'.ret.val.node}
               ELSE nodes' = nodes /\ groups' = groups]_vars
    /\ [][\A g \in groups \cap groups' :
            WordGroupWords(nodes', g) = WordGroupWords(nodes, g)]_vars

C17_Witness ==
    /\ call.op = "add"
    /\ call.ret.some
    /\ call.g.length = 1
    /\ groups = {call.g, call.ret.val}
    /\ nodes[call.ret.val.node].parent = Some(call.g.node)

\* add(g, w) has returned None and g is still there
C17_WitnessNone ==
    /\ call.op = "add"
    /\ ~call.ret.some
    /\ call.g.length = 2
    /\ call.g \in groups

\* the groups of gs that have exactly k words on their chain
OfSize(heap, gs, k) == {g \in gs : Len(WordGroupWords(heap, g)) = k}

\* C18: generation 1 holds exactly one singleton per registry word; every
\* group of the generation reported with index i has length exactly i; the
\* count reported for i is the number of groups of exactly i words.
C18_GenerationLength ==
    InLoop =>
        /\ i = 1 =>
              /\ Cardinality(groups) = Len(words)
              /\ \A k \in DOMAIN words :
                    \E g \in groups : /\ WordGroupWords(nodes, g) = <<words[k]>>
                                      /\ g.letters = words[k].letters
                                      /\ g.length = 1
        /\ i >= 1
        /\ \A g \in groups : g.length = i /\ Len(WordGroupWords(nodes, g)) = i
        /\ \A n \in DOMAIN output : output[n].length = n
        /\ pc \in {"sample", "expand"} =>
              /\ Len(output) = i
              /\ output[i].count = Cardinality(OfSize(nodes, groups, i))
              /\ output[i].count = Cardinality(BruteForceIds(i))
        /\ \A n \in DOMAIN output : output[n].count = Cardinality(BruteForceIds(n))

C18_Witness ==
    /\ pc = "sample"
    /\ i = 2
    /\ output = <<[length |-> 1, count |-> 3], [length |-> 2, count |-> 2]>>
    /\ Cardinality(OfSize(nodes, groups, 2)) = 2

\* what add returns for each candidate the filter lets through
Tried(heap, het, ws, g) ==
    {[j |-> j, ret |-> WordGroupAdd(g, ws[j + 1])] : j \in Extensions(heap, het, g)}

\* C19: every candidate that passes the filter has a mask sharing no bit
\* with the group's union mask, so add, called by the expander, returns a
\* group for every one of them and never None.
C19_FilterSufficient ==
    InLoop => \A g \in groups :
        /\ \A j \in Extensions(nodes, heterogrammic, g) :
              /\ words[j + 1].letters \cap g.letters = {}
              /\ \A w \in Members(nodes, g) : words[j + 1].letters \cap w.letters = {}
        /\ \A t \in Tried(nodes, heterogrammic, words, g) : t.ret.some
        /\ Cardinality(ExpandGroup(nodes, heterogrammic, words, g)) =
              Cardinality(Extensions(nodes, heterogrammic, g))

C19_Witness ==
    /\ pc = "expand"
    /\ \E g \in groups :
          /\ g.length = 2
          /\ \E t \in Tried(nodes, heterogrammic, words, g) : t.ret.some

\* the refinement against the older members rejects a candidate of the seed
\* that is later than every member
C19_WitnessRefined ==
    /\ pc = "expand"
    /\ \E g \in groups :
          /\ g.length = 2
          /\ ExtensionsHeadOnly(nodes, heterogrammic, g) # Extensions(nodes, heterogrammic, g)

\* C20: the sampler runs only on a non-empty generation, so choose() always
\* returns a group and unwrap() never panics, the empty dictionary included;
\* five groups are drawn before the generation is expanded.
C20_SamplingSafe ==
    /\ pc # "panic"
    /\ pc = "sample" => groups # {} /\ draws <= SampleCount
    /\ sample # <<>> => pc = "sample" /\ draws > 0
    /\ pc = "expand" => draws = SampleCount
    /\ (input = <<>> /\ InLoop) => groups = {} /\ draws = 0 /\ sample = <<>>

C20_Witness ==
    /\ pc = "sample"
    /\ draws = SampleCount
    /\ i = 2
    /\ sample # <<>>

\* the empty dictionary: one line is reported and the program stops
C20_WitnessEmpty ==
    /\ input = <<>>
    /\ pc = "done"
    /\ output = <<[count |-> 0, length |-> 1]>>
    /\ draws = 0

====
